---- MODULE Spec2Model ----
(***************************************************************************)
(* A model of the runtime-module manager: the module registry              *)
(* (modules.json), the generated module file (runtime-modules.nix) and the *)
(* ModuleManager commands that reconcile the two around an external        *)
(* nixos-rebuild.                                                          *)
(*                                                                         *)
(* Strings are sequences of tokens.  A token is one character ("#", " ",   *)
(* "\n", a quote) or a piece of text that the code only ever treats as a   *)
(* whole: the two substrings the parser searches for ("/nix/store/" and    *)
(* ".nix") are tokens of their own, so `line.contains(x)` is membership of *)
(* the token x in the line.                                                *)
(***************************************************************************)
EXTENDS Integers, Sequences, FiniteSets, TLC

\* ------------------------------------------------------------------ bounds

\* Longest list of module names one command line carries.
MaxReq == 2

\* ----------------------------------------------------------------- strings

STORE == "/nix/store/"
DOTNIX == ".nix"
HASH == "#"
SP == " "
NL == "\n"
QUOTE == "\""

IsWhite(t) == t \in {SP, "\t", "\r", NL}

Contains(s, t) == \E i \in 1..Len(s) : s[i] = t

\* str::find: the first position of t in s, 0 when there is none.
Find(s, t) ==
  IF Contains(s, t) THEN CHOOSE i \in 1..Len(s) : s[i] = t /\ \A j \in 1..(i-1) : s[j] # t
  ELSE 0

RECURSIVE TrimStart(_)
TrimStart(s) == IF s # <<>> /\ IsWhite(Head(s)) THEN TrimStart(Tail(s)) ELSE s

RECURSIVE TrimEnd(_)
TrimEnd(s) ==
  IF s # <<>> /\ IsWhite(s[Len(s)]) THEN TrimEnd(SubSeq(s, 1, Len(s) - 1)) ELSE s

\* str::trim
Trim(s) == TrimEnd(TrimStart(s))

\* str::lines: the pieces between line feeds; a final line feed opens no line.
RECURSIVE Lines(_)
Lines(s) ==
  IF s = <<>> THEN <<>>
  ELSE LET k == Find(s, NL) IN
       IF k = 0 THEN <<s>>
       ELSE <<SubSeq(s, 1, k - 1)>> \o Lines(SubSeq(s, k + 1, Len(s)))

RECURSIVE Flatten(_)
Flatten(ss) == IF ss = <<>> THEN <<>> ELSE Head(ss) \o Flatten(Tail(ss))

Range(s) == {s[i] : i \in 1..Len(s)}

\* ------------------------------------------------------------ ModuleState

Enabled == "Enabled"
Disabled == "Disabled"
Uncertain == "Uncertain"
ModuleState == {Enabled, Disabled, Uncertain}

\* --------------------------------------------------------- ModuleRegistry

\* A Module is [name, path, desc, state]; a registry is the modules vector
\* and the optional name -> index map (some = FALSE is Rust's None).
NoMap == [some |-> FALSE, map |-> <<>>]

RegistryNew(modules) == [modules |-> modules, module_map |-> NoMap]

RegNames(modules) == {modules[i].name : i \in 1..Len(modules)}

\* A variant whose map sends every name to the first position.
init_lookup_to_first(reg) ==
  [reg EXCEPT !.module_map =
     [some |-> TRUE, map |-> [n \in RegNames(reg.modules) |-> 1]]]

\* HashMap::insert in vector order: a later module of the same name wins.
init_lookup(reg) ==
  [reg EXCEPT !.module_map =
     [some |-> TRUE,
      map |-> [n \in RegNames(reg.modules) |->
                 CHOOSE i \in 1..Len(reg.modules) :
                   /\ reg.modules[i].name = n
                   /\ \A j \in (i+1)..Len(reg.modules) : reg.modules[j].name # n]]]

\* The linear search of the fallback branches: the first module of that name.
FirstIndex(modules, n) ==
  IF n \in RegNames(modules)
  THEN CHOOSE i \in 1..Len(modules) :
         modules[i].name = n /\ \A j \in 1..(i-1) : modules[j].name # n
  ELSE 0

\* The index a lookup of n lands on, 0 when it finds none.
LookupIndex(reg, n) ==
  IF reg.module_map.some
  THEN IF n \in DOMAIN reg.module_map.map THEN reg.module_map.map[n] ELSE 0
  ELSE FirstIndex(reg.modules, n)

\* Option<String>: <<path>> is Some(path), <<>> is None.
get_module_path(reg, n) ==
  LET i == LookupIndex(reg, n) IN IF i = 0 THEN <<>> ELSE <<reg.modules[i].path>>

get_state(reg, n) ==
  LET i == LookupIndex(reg, n) IN IF i = 0 THEN Disabled ELSE reg.modules[i].state

set_state(reg, n, st) ==
  LET i == LookupIndex(reg, n) IN
  IF i = 0 THEN reg ELSE [reg EXCEPT !.modules[i].state = st]

\* A variant that reports success for every name.
set_state_ret_always(reg, n) == TRUE

\* What set_state returns.
set_state_ret(reg, n) == LookupIndex(reg, n) # 0

\* A variant that marks every module once a name is listed.
mark_all_uncertain(reg, names) ==
  IF names = <<>> THEN reg
  ELSE [reg EXCEPT !.modules =
          [i \in 1..Len(reg.modules) |-> [reg.modules[i] EXCEPT !.state = Uncertain]]]

RECURSIVE mark_uncertain(_, _)
mark_uncertain(reg, names) ==
  IF names = <<>> THEN reg
  ELSE mark_uncertain(set_state(reg, Head(names), Uncertain), Tail(names))

\* A variant that leaves an Uncertain module outside the list as it is.
confirm_known_only(reg, active) ==
  [reg EXCEPT !.modules =
     [i \in 1..Len(reg.modules) |->
        [reg.modules[i] EXCEPT !.state =
           IF reg.modules[i].name \in Range(active) THEN Enabled
           ELSE IF @ = Uncertain THEN Uncertain ELSE Disabled]]]

confirm_states(reg, active) ==
  [reg EXCEPT !.modules =
     [i \in 1..Len(reg.modules) |->
        [reg.modules[i] EXCEPT !.state =
           IF reg.modules[i].name \in Range(active) THEN Enabled ELSE Disabled]]]

\* A variant that accepts every name.
verify_nothing(reg, names) == TRUE

verify_modules_exist(reg, names) ==
  IF reg.module_map.some
  THEN \A k \in 1..Len(names) : names[k] \in DOMAIN reg.module_map.map
  ELSE \A k \in 1..Len(names) : names[k] \in RegNames(reg.modules)

\* ------------------------------------------------------------- ModuleFile

\* A ModuleFile is its active_modules vector (the content field is only
\* ever read by get_content, which nothing calls).

ModuleFileEmpty == <<>>

RECURSIVE ParseLines(_)
ParseLines(ls) ==
  IF ls = <<>> THEN <<>>
  ELSE LET line == Trim(Head(ls))
           pos == Find(line, HASH)
           name == IF pos = 0 THEN <<>> ELSE Trim(SubSeq(line, pos + 1, Len(line)))
       IN (IF Contains(line, STORE) /\ Contains(line, DOTNIX) /\ pos # 0 /\ name # <<>>
           THEN <<name>> ELSE <<>>) \o ParseLines(Tail(ls))

parse_active_modules(content) == ParseLines(Lines(content))

is_module_enabled(active, n) == \E i \in 1..Len(active) : active[i] = n

RECURSIVE FileEnable(_, _)
FileEnable(active, names) ==
  IF names = <<>> THEN active
  ELSE FileEnable(IF is_module_enabled(active, Head(names)) THEN active
                  ELSE Append(active, Head(names)),
                  Tail(names))

\* A variant that puts the new names in front of the old ones.
file_enable_prepending(active, names) ==
  LET new == FileEnable(<<>>, SelectSeq(names, LAMBDA n : ~is_module_enabled(active, n)))
  IN [active |-> new \o active, changes |-> new # <<>>]

\* A variant that appends every requested name.
file_enable_appending(active, names) ==
  [active |-> active \o names, changes |-> names # <<>>]

\* A variant that reports a change whether or not a name was added.
file_enable_always_changed(active, names) ==
  [active |-> FileEnable(active, names), changes |-> TRUE]

\* ModuleFile::enable_modules: the new vector and the returned flag.
file_enable_modules(active, names) ==
  LET new == FileEnable(active, names) IN [active |-> new, changes |-> new # active]

\* A variant that removes only the first listed name.
file_disable_head_only(active, names) ==
  LET new == SelectSeq(active, LAMBDA m : names = <<>> \/ m # Head(names))
  IN [active |-> new, changes |-> Len(new) # Len(active)]

\* A variant that removes only the first occurrence of a listed name.
file_disable_first_occurrence(active, names) ==
  LET hit == {i \in 1..Len(active) : active[i] \in Range(names)}
      k == IF hit = {} THEN 0 ELSE CHOOSE i \in hit : \A j \in hit : i <= j
      new == IF k = 0 THEN active
             ELSE SubSeq(active, 1, k - 1) \o SubSeq(active, k + 1, Len(active))
  IN [active |-> new, changes |-> Len(new) # Len(active)]

\* ModuleFile::disable_modules: retain, and whether the length changed.
file_disable_modules(active, names) ==
  LET new == SelectSeq(active, LAMBDA m : m \notin Range(names))
  IN [active |-> new, changes |-> Len(new) # Len(active)]

\* The (name, path) pairs of the active modules the registry resolves.
ModulePaths(active, reg) ==
  LET pairs == [i \in 1..Len(active) |->
                  LET p == get_module_path(reg, active[i]) IN
                  IF p = <<>> THEN <<>> ELSE <<[name |-> active[i], path |-> p[1]]>>]
  IN Flatten(pairs)

ImportLine(path, name) ==
  <<SP, SP, SP, SP, QUOTE>> \o path \o <<QUOTE, SP, HASH, SP>> \o name \o <<NL>>

generate_file_content(modules, module_paths) ==
  LET entry(m) ==
        IF \E k \in 1..Len(module_paths) : module_paths[k].name = m
        THEN LET k == CHOOSE k \in 1..Len(module_paths) :
                        /\ module_paths[k].name = m
                        /\ \A j \in 1..(k-1) : module_paths[j].name # m
             IN ImportLine(module_paths[k].path, m)
        ELSE <<>>
  IN <<HASH, SP, "This file is generated by runtime-module script", NL>>
     \o <<"{ ... }:", NL>>
     \o <<"{", NL>>
     \o (IF modules = <<>>
         THEN <<SP, SP, HASH, SP, "No active modules", NL>>
         ELSE <<SP, SP, "imports = [", NL>>
              \o Flatten([i \in 1..Len(modules) |-> entry(modules[i])])
              \o <<SP, SP, "];", NL>>)
     \o <<"}", NL>>

generate_content(active, reg) ==
  generate_file_content(active, ModulePaths(active, reg))

\* The warnings generate_content gives for the active names it leaves out:
\* filter_map drops a name without a path and nothing is printed or returned
\* for it.
generate_content_warnings(active, reg) == <<>>

\* ---------------------------------------------------------- ModuleManager

\* A manager is [registry, active]: the loaded registry and the module
\* file's active_modules.

\* A variant that sets every active module Enabled, Uncertain or not.
sync_overwriting(reg, active) ==
  [reg EXCEPT !.modules =
     [i \in 1..Len(reg.modules) |->
        [reg.modules[i] EXCEPT !.state =
           IF reg.modules[i].name \in Range(active) THEN Enabled ELSE @]]]

RECURSIVE sync_registry_with_module_file(_, _)
sync_registry_with_module_file(reg, active) ==
  IF active = <<>> THEN reg
  ELSE sync_registry_with_module_file(
         IF get_state(reg, Head(active)) # Uncertain
         THEN set_state(reg, Head(active), Enabled) ELSE reg,
         Tail(active))

\* A variant that asks the activation set before the stored state.
effective_state_by_membership(reg, active, m) ==
  IF is_module_enabled(active, m) THEN Enabled
  ELSE IF get_state(reg, m) = Uncertain THEN Uncertain
  ELSE Disabled

get_effective_state(reg, active, m) ==
  IF get_state(reg, m) = Uncertain THEN Uncertain
  ELSE IF is_module_enabled(active, m) THEN Enabled
  ELSE Disabled

\* get_status and get_all_status, as the list of states they carry.
get_status(reg, active, names) ==
  [k \in 1..Len(names) |-> get_effective_state(reg, active, names[k])]

get_all_status(reg, active) ==
  [i \in 1..Len(reg.modules) |-> get_effective_state(reg, active, reg.modules[i].name)]

\* The marking loop of enable_modules: the registry and the changes flag.
RECURSIVE EnableMark(_, _, _, _)
EnableMark(reg, active, names, changes) ==
  IF names = <<>> THEN [registry |-> reg, changes |-> changes]
  ELSE LET cur == get_effective_state(reg, active, Head(names)) IN
       IF cur = Enabled THEN EnableMark(reg, active, Tail(names), changes)
       ELSE IF cur = Uncertain THEN EnableMark(reg, active, Tail(names), TRUE)
       ELSE EnableMark(set_state(reg, Head(names), Uncertain), active, Tail(names), TRUE)

\* The marking loop of disable_modules.
RECURSIVE DisableMark(_, _, _, _)
DisableMark(reg, active, names, changes) ==
  IF names = <<>> THEN [registry |-> reg, changes |-> changes]
  ELSE LET cur == get_effective_state(reg, active, Head(names)) IN
       IF cur = Enabled
       THEN DisableMark(set_state(reg, Head(names), Uncertain), active, Tail(names), TRUE)
       ELSE IF cur = Uncertain THEN DisableMark(reg, active, Tail(names), TRUE)
       ELSE DisableMark(reg, active, Tail(names), changes)

\* A variant whose returned flag counts a forced apply as a change.
enable_modules_force_changes(reg, active, names, force) ==
  LET marked == EnableMark(reg, active, names, FALSE)
      file == file_enable_modules(active, names)
      changes == marked.changes \/ file.changes \/ force
  IN [registry |-> marked.registry, active |-> file.active,
      changes |-> changes, apply |-> changes]

\* A variant that applies only when the activation set changed.
disable_modules_by_file(reg, active, names, force) ==
  LET marked == DisableMark(reg, active, names, FALSE)
      file == file_disable_modules(active, names)
  IN [registry |-> marked.registry, active |-> file.active,
      changes |-> file.changes, apply |-> file.changes \/ force]

\* enable_modules up to its call of apply_changes: the manager's new fields,
\* the value it returns on success and whether apply_changes runs.
enable_modules(reg, active, names, force) ==
  LET marked == EnableMark(reg, active, names, FALSE)
      file == file_enable_modules(active, names)
      changes == marked.changes \/ file.changes
  IN [registry |-> marked.registry, active |-> file.active,
      changes |-> changes, apply |-> changes \/ force]

disable_modules(reg, active, names, force) ==
  LET marked == DisableMark(reg, active, names, FALSE)
      file == file_disable_modules(active, names)
      changes == marked.changes \/ file.changes
  IN [registry |-> marked.registry, active |-> file.active,
      changes |-> changes, apply |-> changes \/ force]

\* A variant that runs the apply step whatever the activation set and force.
reset_always(reg, active, force) ==
  [registry |-> mark_uncertain(reg, active), active |-> ModuleFileEmpty,
   changes |-> FALSE, apply |-> TRUE]

\* A variant that empties the activation set without marking its names.
reset_unmarked(reg, active, force) ==
  IF active = <<>> /\ ~force
  THEN [registry |-> reg, active |-> active, changes |-> FALSE, apply |-> FALSE]
  ELSE [registry |-> reg, active |-> ModuleFileEmpty, changes |-> FALSE, apply |-> TRUE]

\* reset returns (): changes is FALSE there.
reset(reg, active, force) ==
  IF active = <<>> /\ ~force
  THEN [registry |-> reg, active |-> active, changes |-> FALSE, apply |-> FALSE]
  ELSE [registry |-> mark_uncertain(reg, active), active |-> ModuleFileEmpty,
        changes |-> FALSE, apply |-> TRUE]

\* A variant that runs the apply step whatever the activation set and force.
rebuild_always(reg, active, force) ==
  [registry |-> reg, active |-> active, changes |-> FALSE, apply |-> TRUE]

rebuild(reg, active, force) ==
  IF active = <<>> /\ ~force
  THEN [registry |-> reg, active |-> active, changes |-> FALSE, apply |-> FALSE]
  ELSE [registry |-> reg, active |-> active, changes |-> FALSE, apply |-> TRUE]

\* What the three steps of apply_configuration meet: set_current_dir, the
\* status of `nix flake update` and the status of `nixos-rebuild test`.
ApplierRuns ==
  [chdir : {"ok", "err"},
   update : {"success", "nonzero", "spawn_err"},
   rebuild : {"success", "nonzero", "spawn_err"}]

\* A variant that gives up when the flake update exits with a failure.
apply_configuration_strict(env) ==
  IF env.chdir = "err" THEN [ok |-> FALSE, steps |-> <<"chdir">>]
  ELSE IF env.update # "success"
  THEN [ok |-> FALSE, steps |-> <<"chdir", "nix flake update">>]
  ELSE [ok |-> env.rebuild = "success",
        steps |-> <<"chdir", "nix flake update", "nixos-rebuild">>]

\* apply_configuration: its result and the steps it went into.
apply_configuration(env) ==
  IF env.chdir = "err" THEN [ok |-> FALSE, steps |-> <<"chdir">>]
  ELSE IF env.update = "spawn_err"
  THEN [ok |-> FALSE, steps |-> <<"chdir", "nix flake update">>]
  ELSE [ok |-> env.rebuild = "success",
        steps |-> <<"chdir", "nix flake update", "nixos-rebuild">>]

\* A variant that does not confirm after a successful apply.
AfterApplyMarkOnly(reg, active, ok) ==
  IF ok THEN reg ELSE mark_uncertain(reg, active)

\* A variant that does not mark after a failed apply.
AfterApplyConfirmOnly(reg, active, ok) ==
  IF ok THEN confirm_states(reg, active) ELSE reg

\* apply_changes after apply_configuration has returned: the registry it saves.
AfterApply(reg, active, ok) ==
  IF ok THEN confirm_states(reg, active) ELSE mark_uncertain(reg, active)

\* ------------------------------------------------------------------ files

\* modules.json holds the modules vector (the map is #[serde(skip)]).
\* runtime-modules.nix is absent or holds a text.
NoFile == [exists |-> FALSE, content |-> <<>>]
FileOf(content) == [exists |-> TRUE, content |-> content]

\* What ModuleFile::save(MODULES_FILE, &registry) writes for manager m.
SavedModuleFile(m) == FileOf(generate_content(m.active, m.registry))

\* ModuleRegistry::from_file
RegistryFromFile(modules) == init_lookup(RegistryNew(modules))

\* A variant that takes a name from every line that has a comment.
from_file_every_comment(file) ==
  IF ~file.exists THEN <<>>
  ELSE LET commented == SelectSeq(Lines(file.content), LAMBDA l : Contains(l, HASH))
       IN [k \in 1..Len(commented) |->
             Trim(SubSeq(commented[k], Find(commented[k], HASH) + 1, Len(commented[k])))]

\* ModuleFile::from_file
ModuleFileFromFile(file) ==
  IF ~file.exists THEN <<>> ELSE parse_active_modules(file.content)

\* ModuleManager::new
ManagerNew(modules, file) ==
  LET active == ModuleFileFromFile(file) IN
  [registry |-> sync_registry_with_module_file(RegistryFromFile(modules), active),
   active |-> active]

\* ---------------------------------------------------- the installed system

NameA == <<"a">>
NameB == <<"b">>
NameC == <<"c">>
\* A name no module of the registry carries.
NameZ == <<"z">>

\* modules.json as the system's build wrote it: every module Disabled.  Two
\* modules are files of the store; the third path is the shape the test
\* registry uses (tests/lib_tests.rs: "/path/to/test1").
Catalog ==
  << [name |-> NameA, path |-> <<STORE, "h-source/a", DOTNIX>>, desc |-> <<>>, state |-> Disabled],
     [name |-> NameB, path |-> <<STORE, "h-source/b", DOTNIX>>, desc |-> <<"b">>, state |-> Disabled],
     [name |-> NameC, path |-> <<"/path/to/c">>, desc |-> <<>>, state |-> Disabled] >>

Names == {NameA, NameB, NameC, NameZ}

\* The module lists of a command line: clap requires at least one name.
RECURSIVE SeqsUpTo(_, _)
SeqsUpTo(S, n) ==
  IF n = 0 THEN {<<>>}
  ELSE LET shorter == SeqsUpTo(S, n - 1) IN
       shorter \cup {Append(q, x) : q \in {r \in shorter : Len(r) = n - 1}, x \in S}

Requests == SeqsUpTo(Names, MaxReq) \ {<<>>}

\* The command lines that name one module.
Singles == {<<n>> : n \in Names}

\* How a save ends: both calls succeed, fs::write fails and leaves the file
\* as it was, or fs::write succeeds and fixing the permissions fails.
SaveOk == {"ok"}
SaveAny == {"ok", "write_failed", "chmod_failed"}

\* The engine invocations: Spec runs them one after the other.
Procs == {1, 2}
SeqProcs == {1}

VARIABLES
  diskRegistry,    \* modules.json: the modules vector
  diskModuleFile,  \* runtime-modules.nix: absent, or its text
  pc,              \* per invocation: "idle", "loaded", "save_file", "apply", "save_registry", "done"
  cmd,             \* per invocation: [op, modules, force] of the command
  manager,         \* per invocation: [registry, active] in memory
  applied,         \* per invocation: what apply_configuration returned: "none", "ok", "failed"
  out,             \* per invocation: [result, changes, exit, status] of the command
  events,          \* per invocation: the writes and applier calls of the command, in order
  pre,             \* per invocation: both files as the command found them
  lib              \* a registry and a module file driven through the library's API

procVars == <<diskRegistry, diskModuleFile, pc, cmd, manager, applied, out, events, pre>>
vars == <<diskRegistry, diskModuleFile, pc, cmd, manager, applied, out, events, pre, lib>>

NoManager == [registry |-> RegistryNew(<<>>), active |-> <<>>]
NoCmd == [op |-> "none", modules |-> <<>>, force |-> FALSE]
\* sudo: the invocation has come past require_sudo.
NoOut == [result |-> "none", changes |-> FALSE, exit |-> 0, status |-> <<>>, sudo |-> FALSE]
NoDisk == [registry |-> <<>>, file |-> NoFile]
NoLib == [registry |-> RegistryNew(<<>>), active |-> <<>>, op |-> "none", arg |-> <<>>, ret |-> FALSE]
Disk == [registry |-> diskRegistry, file |-> diskModuleFile]

ProcInit ==
  /\ diskRegistry = Catalog
  /\ diskModuleFile = NoFile
  /\ pc = [p \in Procs |-> "idle"]
  /\ cmd = [p \in Procs |-> NoCmd]
  /\ manager = [p \in Procs |-> NoManager]
  /\ applied = [p \in Procs |-> "none"]
  /\ out = [p \in Procs |-> NoOut]
  /\ events = [p \in Procs |-> <<>>]
  /\ pre = [p \in Procs |-> NoDisk]

Init == ProcInit /\ lib = NoLib

\* A new process starts (the one before it, if any, has exited) and its
\* command handler builds its manager: ModuleManager::new reads both files.
Load(p) ==
  /\ pc[p] \in {"idle", "done"}
  /\ pc' = [pc EXCEPT ![p] = "loaded"]
  /\ manager' = [manager EXCEPT ![p] = ManagerNew(diskRegistry, diskModuleFile)]
  /\ pre' = [pre EXCEPT ![p] = Disk]
  /\ cmd' = [cmd EXCEPT ![p] = NoCmd]
  /\ out' = [out EXCEPT ![p] = NoOut]
  /\ events' = [events EXCEPT ![p] = <<>>]
  /\ applied' = [applied EXCEPT ![p] = "none"]
  /\ UNCHANGED <<diskRegistry, diskModuleFile, lib>>

\* The part every command handler shares: it runs on the loaded manager.
Begin(p, c) ==
  /\ pc[p] = "loaded"
  /\ cmd' = [cmd EXCEPT ![p] = c]
  /\ UNCHANGED <<diskRegistry, diskModuleFile, applied, events, pre, lib>>

\* The command ends without having reached apply_changes.
Return(p, m, result, changes, exit, status, sudo) ==
  /\ manager' = [manager EXCEPT ![p] = m]
  /\ out' = [out EXCEPT ![p] =
       [result |-> result, changes |-> changes, exit |-> exit, status |-> status,
        sudo |-> sudo]]
  /\ pc' = [pc EXCEPT ![p] = "done"]

\* The command has come past require_sudo and runs its ModuleManager
\* method; it goes on into apply_changes with the manager r describes.
Proceed(p, r) ==
  IF r.apply
  THEN /\ manager' = [manager EXCEPT ![p] = [registry |-> r.registry, active |-> r.active]]
       /\ out' = [out EXCEPT ![p] = [NoOut EXCEPT !.changes = r.changes, !.sudo = TRUE]]
       /\ pc' = [pc EXCEPT ![p] = "save_file"]
  ELSE Return(p, [registry |-> r.registry, active |-> r.active], "ok", r.changes, 0, <<>>, TRUE)

\* cmd_verify_modules failed: it prints the list and exits with 1, before
\* execute_command reaches require_sudo.
NotFound(p) == Return(p, manager[p], "not_found", FALSE, 1, <<>>, FALSE)

\* cmd_list
CmdList(p) ==
  /\ Begin(p, [op |-> "list", modules |-> <<>>, force |-> FALSE])
  /\ Return(p, manager[p], "ok", FALSE, 0,
            get_all_status(manager[p].registry, manager[p].active), FALSE)

\* A variant of cmd_status that saves the registry it loaded and synced.
CmdStatusSaving(p, R) ==
  \E names \in R :
    /\ pc[p] = "loaded"
    /\ cmd' = [cmd EXCEPT ![p] = [op |-> "status", modules |-> names, force |-> FALSE]]
    /\ diskRegistry' = manager[p].registry.modules
    /\ LET st == get_status(manager[p].registry, manager[p].active, names) IN
       IF ~verify_modules_exist(manager[p].registry, names) THEN NotFound(p)
       ELSE Return(p, manager[p], "ok", FALSE,
                   IF \E k \in 1..Len(st) : st[k] # Enabled THEN 1 ELSE 0, st, FALSE)
    /\ UNCHANGED <<diskModuleFile, applied, events, pre, lib>>

\* A variant of cmd_status that exits with 1 only for a Disabled module.
CmdStatusUncertainOk(p, R) ==
  \E names \in R :
    /\ Begin(p, [op |-> "status", modules |-> names, force |-> FALSE])
    /\ LET st == get_status(manager[p].registry, manager[p].active, names) IN
       IF ~verify_modules_exist(manager[p].registry, names) THEN NotFound(p)
       ELSE Return(p, manager[p], "ok", FALSE,
                   IF \E k \in 1..Len(st) : st[k] = Disabled THEN 1 ELSE 0, st, FALSE)

\* cmd_verify_modules, then cmd_status
CmdStatus(p, R) ==
  \E names \in R :
    /\ Begin(p, [op |-> "status", modules |-> names, force |-> FALSE])
    /\ LET st == get_status(manager[p].registry, manager[p].active, names) IN
       IF ~verify_modules_exist(manager[p].registry, names) THEN NotFound(p)
       ELSE Return(p, manager[p], "ok", FALSE,
                   IF \E k \in 1..Len(st) : st[k] # Enabled THEN 1 ELSE 0, st, FALSE)

\* cmd_verify_modules, then cmd_enable up to apply_changes
CmdEnable(p, R) ==
  \E names \in R, force \in BOOLEAN :
    /\ Begin(p, [op |-> "enable", modules |-> names, force |-> force])
    /\ IF ~verify_modules_exist(manager[p].registry, names) THEN NotFound(p)
       ELSE Proceed(p, enable_modules(manager[p].registry, manager[p].active, names, force))

\* cmd_verify_modules, then cmd_disable up to apply_changes
CmdDisable(p, R) ==
  \E names \in R, force \in BOOLEAN :
    /\ Begin(p, [op |-> "disable", modules |-> names, force |-> force])
    /\ IF ~verify_modules_exist(manager[p].registry, names) THEN NotFound(p)
       ELSE Proceed(p, disable_modules(manager[p].registry, manager[p].active, names, force))

\* cmd_reset up to apply_changes
CmdReset(p) ==
  \E force \in BOOLEAN :
    /\ Begin(p, [op |-> "reset", modules |-> <<>>, force |-> force])
    /\ Proceed(p, reset(manager[p].registry, manager[p].active, force))

\* cmd_rebuild up to apply_changes
CmdRebuild(p) ==
  \E force \in BOOLEAN :
    /\ Begin(p, [op |-> "rebuild", modules |-> <<>>, force |-> force])
    /\ Proceed(p, rebuild(manager[p].registry, manager[p].active, force))

\* A variant of the first step that saves the registry when the save of the
\* module file fails.
SaveModuleFileThenRegistry(p, IO) ==
  /\ pc[p] = "save_file"
  /\ \E io \in IO :
       /\ diskModuleFile' =
            IF io = "write_failed" THEN diskModuleFile
            ELSE SavedModuleFile(manager[p])
       /\ diskRegistry' =
            IF io = "ok" THEN diskRegistry ELSE manager[p].registry.modules
       /\ events' = [events EXCEPT ![p] =
            IF io = "write_failed" THEN @ ELSE Append(@, "write_file")]
       /\ IF io = "ok"
          THEN /\ pc' = [pc EXCEPT ![p] = "apply"]
               /\ UNCHANGED out
          ELSE /\ pc' = [pc EXCEPT ![p] = "done"]
               /\ out' = [out EXCEPT ![p] = [@ EXCEPT !.result = "io_error", !.exit = 1]]
  /\ UNCHANGED <<cmd, manager, applied, pre, lib>>

\* apply_changes, first step: ModuleFile::save.  fs::write fails and leaves
\* the file, or succeeds; setting the permissions afterwards may fail too.
SaveModuleFile(p, IO) ==
  /\ pc[p] = "save_file"
  /\ \E io \in IO :
       /\ diskModuleFile' =
            IF io = "write_failed" THEN diskModuleFile
            ELSE SavedModuleFile(manager[p])
       /\ events' = [events EXCEPT ![p] =
            IF io = "write_failed" THEN @ ELSE Append(@, "write_file")]
       /\ IF io = "ok"
          THEN /\ pc' = [pc EXCEPT ![p] = "apply"]
               /\ UNCHANGED out
          ELSE /\ pc' = [pc EXCEPT ![p] = "done"]
               /\ out' = [out EXCEPT ![p] = [@ EXCEPT !.result = "io_error", !.exit = 1]]
  /\ UNCHANGED <<diskRegistry, cmd, manager, applied, pre, lib>>

\* A variant of the second step that calls the applier again when it failed.
ApplyRetrying(p) ==
  /\ pc[p] = "apply"
  /\ \E ok \in BOOLEAN :
       /\ applied' = [applied EXCEPT ![p] = IF ok THEN "ok" ELSE "failed"]
       /\ manager' = [manager EXCEPT ![p].registry =
            AfterApply(manager[p].registry, manager[p].active, ok)]
       /\ events' = [events EXCEPT ![p] =
            Append(@, IF ok THEN "apply_ok" ELSE "apply_failed")]
       /\ pc' = [pc EXCEPT ![p] = IF ok THEN "save_registry" ELSE "apply"]
  /\ UNCHANGED <<diskRegistry, diskModuleFile, cmd, out, pre, lib>>

\* A variant of the second step that saves the registry in the same step.
ApplyThenSave(p) ==
  /\ pc[p] = "apply"
  /\ \E ok \in BOOLEAN :
       /\ applied' = [applied EXCEPT ![p] = IF ok THEN "ok" ELSE "failed"]
       /\ manager' = [manager EXCEPT ![p].registry =
            AfterApply(manager[p].registry, manager[p].active, ok)]
       /\ diskRegistry' = AfterApply(manager[p].registry, manager[p].active, ok).modules
       /\ events' = [events EXCEPT ![p] =
            Append(@, IF ok THEN "apply_ok" ELSE "apply_failed")]
  /\ pc' = [pc EXCEPT ![p] = "save_registry"]
  /\ UNCHANGED <<diskModuleFile, cmd, out, pre, lib>>

\* apply_changes, second step: apply_configuration runs and returns; the
\* registry is confirmed or marked in memory.
Apply(p) ==
  /\ pc[p] = "apply"
  /\ \E ok \in {apply_configuration(env).ok : env \in ApplierRuns} :
       /\ applied' = [applied EXCEPT ![p] = IF ok THEN "ok" ELSE "failed"]
       /\ manager' = [manager EXCEPT ![p].registry =
            AfterApply(manager[p].registry, manager[p].active, ok)]
       /\ events' = [events EXCEPT ![p] =
            Append(@, IF ok THEN "apply_ok" ELSE "apply_failed")]
  /\ pc' = [pc EXCEPT ![p] = "save_registry"]
  /\ UNCHANGED <<diskRegistry, diskModuleFile, cmd, out, pre, lib>>

\* A variant of the last step that leaves modules.json alone when it is not
\* what the invocation loaded.
SaveRegistryIfUnchanged(p, IO) ==
  /\ pc[p] = "save_registry"
  /\ \E io \in IO :
       /\ diskRegistry' =
            IF io = "write_failed" \/ diskRegistry # pre[p].registry
            THEN diskRegistry ELSE manager[p].registry.modules
       /\ events' = [events EXCEPT ![p] =
            IF io = "write_failed" THEN @ ELSE Append(@, "write_registry")]
       /\ out' = [out EXCEPT ![p] =
            IF io # "ok" THEN [@ EXCEPT !.result = "io_error", !.exit = 1]
            ELSE IF applied[p] = "ok" THEN [@ EXCEPT !.result = "ok", !.exit = 0]
            ELSE [@ EXCEPT !.result = "apply_error", !.exit = 1]]
  /\ pc' = [pc EXCEPT ![p] = "done"]
  /\ UNCHANGED <<diskModuleFile, cmd, manager, applied, pre, lib>>

\* apply_changes, last step: ModuleRegistry::save, then Ok(()) or Err(e).
SaveRegistry(p, IO) ==
  /\ pc[p] = "save_registry"
  /\ \E io \in IO :
       /\ diskRegistry' =
            IF io = "write_failed" THEN diskRegistry ELSE manager[p].registry.modules
       /\ events' = [events EXCEPT ![p] =
            IF io = "write_failed" THEN @ ELSE Append(@, "write_registry")]
       /\ out' = [out EXCEPT ![p] =
            IF io # "ok" THEN [@ EXCEPT !.result = "io_error", !.exit = 1]
            ELSE IF applied[p] = "ok" THEN [@ EXCEPT !.result = "ok", !.exit = 0]
            ELSE [@ EXCEPT !.result = "apply_error", !.exit = 1]]
  /\ pc' = [pc EXCEPT ![p] = "done"]
  /\ UNCHANGED <<diskModuleFile, cmd, manager, applied, pre, lib>>

\* The process is killed inside apply_changes.
Kill(p) ==
  /\ pc[p] \in {"save_file", "apply", "save_registry"}
  /\ pc' = [pc EXCEPT ![p] = "done"]
  /\ out' = [out EXCEPT ![p] = [@ EXCEPT !.result = "killed", !.exit = 1]]
  /\ UNCHANGED <<diskRegistry, diskModuleFile, cmd, manager, applied, events, pre, lib>>

\* One step of invocation p, its command line drawn from R and its saves
\* ending as IO allows.
Step(p, R, IO) ==
  \/ Load(p)
  \/ CmdList(p)
  \/ CmdStatus(p, R)
  \/ CmdEnable(p, R)
  \/ CmdDisable(p, R)
  \/ CmdReset(p)
  \/ CmdRebuild(p)
  \/ SaveModuleFile(p, IO)
  \/ Apply(p)
  \/ SaveRegistry(p, IO)

\* Commands run one after the other, each to its end; every save succeeds
\* and the applier succeeds or fails.
Next == \E p \in SeqProcs : Step(p, Requests, SaveOk)

Spec == Init /\ [][Next]_vars

\* The same with saves that may fail and a process that may be killed.
NextFaults == \E p \in SeqProcs : Step(p, Singles, SaveAny) \/ Kill(p)

SpecFaults == Init /\ [][NextFaults]_vars

\* Two invocations run against the same two files with nothing between
\* them but the files: any step of one may come between two steps of the
\* other.  Each enables or disables one module of the store.  The first
\* administrator runs command after command; the second starts one
\* invocation, at any moment, and the first starts no further one once the
\* second has its command.
RaceRequests == {<<NameA>>, <<NameB>>}

NextRace ==
  \E p \in Procs :
    \/ /\ \A q \in Procs \ SeqProcs : IF p = q THEN pc[q] = "idle"
                                      ELSE pc[q] \in {"idle", "loaded"}
       /\ Load(p)
    \/ CmdEnable(p, RaceRequests)
    \/ CmdDisable(p, RaceRequests)
    \/ SaveModuleFile(p, SaveOk)
    \/ Apply(p)
    \/ SaveRegistry(p, SaveOk)

SpecRace == Init /\ [][NextRace]_vars

\* ------------------------------------------------- the library on its own

\* A caller of the library (the tests, the manager) holds a ModuleRegistry
\* and a ModuleFile and calls their methods in any order.  lib.op, lib.arg
\* and lib.ret are the last call, its argument and what it returned.

LibCall(reg, active, op, arg, ret) ==
  /\ lib' = [registry |-> reg, active |-> active, op |-> op, arg |-> arg, ret |-> ret]
  /\ UNCHANGED procVars

\* The registry the caller builds: one module of the store and the one
\* outside it; the names it passes.
LibCatalog == SubSeq(Catalog, 2, 3)
LibNames == {NameB, NameC, NameZ}
LibRequests == SeqsUpTo(LibNames, MaxReq) \ {<<>>}

\* ModuleRegistry::new(modules), ModuleFile::empty().
LibInit ==
  /\ ProcInit
  /\ lib = [NoLib EXCEPT !.registry = RegistryNew(LibCatalog)]

LibInitLookup ==
  LibCall(init_lookup(lib.registry), lib.active, "init_lookup", <<>>, FALSE)

LibSetState ==
  \E n \in LibNames, st \in ModuleState :
    LibCall(set_state(lib.registry, n, st), lib.active, "set_state", <<n>>,
            set_state_ret(lib.registry, n))

LibMarkUncertain ==
  \E names \in LibRequests :
    LibCall(mark_uncertain(lib.registry, names), lib.active, "mark_uncertain", names, FALSE)

\* confirm_states(&module_file.active_modules), the vector being S.
LibConfirmStates ==
  \E S \in LibRequests \cup {<<>>} :
    LibCall(confirm_states(lib.registry, S), S, "confirm_states", S, FALSE)

LibEnableModules ==
  \E names \in LibRequests :
    LET r == file_enable_modules(lib.active, names) IN
    /\ Len(r.active) <= MaxReq
    /\ LibCall(lib.registry, r.active, "enable_modules", names, r.changes)

LibDisableModules ==
  \E names \in LibRequests :
    LET r == file_disable_modules(lib.active, names) IN
    LibCall(lib.registry, r.active, "disable_modules", names, r.changes)

\* The middle of apply_changes: apply_configuration, then confirm_states or
\* mark_uncertain with the active modules.
LibApplyChanges ==
  \E env \in ApplierRuns :
    LET ok == apply_configuration(env).ok IN
    LibCall(AfterApply(lib.registry, lib.active, ok), lib.active, "apply_changes",
            <<env.chdir, env.update, env.rebuild>>, ok)

LibNext ==
  \/ LibInitLookup
  \/ LibSetState
  \/ LibMarkUncertain
  \/ LibConfirmStates
  \/ LibEnableModules
  \/ LibDisableModules
  \/ LibApplyChanges

SpecLib == LibInit /\ [][LibNext]_vars

\* ================================================================ claims

Mutating == {"enable", "disable", "reset", "rebuild"}

\* The state modules.json text `modules` stores for n is Uncertain.
StoredUncertain(modules, n) ==
  \E i \in 1..Len(modules) : modules[i].name = n /\ modules[i].state = Uncertain

\* The precedence rule, read off the stored catalog and the activation set.
RuleState(modules, active, n) ==
  IF StoredUncertain(modules, n) THEN Uncertain
  ELSE IF n \in Range(active) THEN Enabled
  ELSE Disabled

\* What a fresh invocation reports for n when it finds the files in `disk`.
FreshState(disk, n) ==
  LET m == ManagerNew(disk.registry, disk.file) IN
  get_effective_state(m.registry, m.active, n)

\* C1: for every name, in the catalog or not, the effective state a loaded
\* manager computes, and the one status and list report, is Uncertain when
\* the catalog stores Uncertain for it, else Enabled when the name is in the
\* activation set, else Disabled.
C1_EffectiveStatePrecedence ==
  \A p \in Procs :
    /\ pc[p] = "loaded" =>
         \A n \in Names :
           get_effective_state(manager[p].registry, manager[p].active, n)
             = RuleState(pre[p].registry, manager[p].active, n)
    /\ (pc[p] = "done" /\ cmd[p].op = "status" /\ out[p].result = "ok") =>
         /\ Len(out[p].status) = Len(cmd[p].modules)
         /\ \A k \in 1..Len(cmd[p].modules) :
              out[p].status[k] = RuleState(pre[p].registry, manager[p].active, cmd[p].modules[k])
    /\ (pc[p] = "done" /\ cmd[p].op = "list") =>
         /\ Len(out[p].status) = Len(pre[p].registry)
         /\ \A i \in 1..Len(pre[p].registry) :
              out[p].status[i] =
                RuleState(pre[p].registry, manager[p].active, pre[p].registry[i].name)

\* A status query of a module that is both active and stored Uncertain.
C1_Witness ==
  \E p \in Procs :
    /\ pc[p] = "done" /\ cmd[p].op = "status" /\ out[p].result = "ok"
    /\ \E k \in 1..Len(cmd[p].modules) :
         /\ cmd[p].modules[k] \in Range(manager[p].active)
         /\ StoredUncertain(pre[p].registry, cmd[p].modules[k])
         /\ out[p].status[k] = Uncertain

\* C2: when a mutating command's applier call has succeeded and the command
\* has ended, modules.json stores Enabled for every module of the command's
\* activation set and Disabled for every other module, whatever the command
\* named and whatever was Uncertain before.
C2_SuccessLeavesNoUncertain ==
  \A p \in Procs :
    (pc[p] = "done" /\ cmd[p].op \in Mutating /\ applied[p] = "ok") =>
      \A i \in 1..Len(diskRegistry) :
        diskRegistry[i].state =
          IF diskRegistry[i].name \in Range(manager[p].active) THEN Enabled ELSE Disabled

\* A successful command that resolves an Uncertain module it did not name.
C2_Witness ==
  \E p \in Procs :
    /\ pc[p] = "done" /\ cmd[p].op \in {"enable", "disable"} /\ applied[p] = "ok"
    /\ \E i \in 1..Len(diskRegistry) :
         /\ pre[p].registry[i].state = Uncertain
         /\ pre[p].registry[i].name \notin Range(cmd[p].modules)
         /\ diskRegistry[i].state = Enabled

\* C3: when the applier call of a mutating command has failed and the
\* command has ended, modules.json is the manager's registry with every
\* module of the post-request activation set Uncertain, runtime-modules.nix
\* is still the rendering of that activation set, and the command returns
\* the apply error (exit code 1).
C3_FailureMarksActiveUncertain ==
  \A p \in Procs :
    (pc[p] = "done" /\ cmd[p].op \in Mutating /\ applied[p] = "failed") =>
      /\ \A i \in 1..Len(diskRegistry) :
           diskRegistry[i].name \in Range(manager[p].active)
             => diskRegistry[i].state = Uncertain
      /\ diskRegistry = manager[p].registry.modules
      /\ diskModuleFile = SavedModuleFile(manager[p])
      /\ out[p].result = "apply_error"
      /\ out[p].exit # 0

\* A failed rebuild over a module that was stored Enabled.
C3_Witness ==
  \E p \in Procs :
    /\ pc[p] = "done" /\ cmd[p].op = "rebuild" /\ applied[p] = "failed"
    /\ \E i \in 1..Len(diskRegistry) :
         /\ pre[p].registry[i].state = Enabled
         /\ diskRegistry[i].name \in Range(manager[p].active)
         /\ diskRegistry[i].state = Uncertain

\* C4: after confirm_states(S) with the activation set equal to S, the
\* effective state of every name is Enabled when the name is in S and
\* Disabled when it is not, and no module of the registry is Uncertain.
C4_ConfirmStatesDecides ==
  lib.op = "confirm_states" =>
    /\ lib.active = lib.arg
    /\ \A n \in LibNames :
         get_effective_state(lib.registry, lib.active, n)
           = IF \E k \in 1..Len(lib.arg) : lib.arg[k] = n THEN Enabled ELSE Disabled
    /\ \A i \in 1..Len(lib.registry.modules) : lib.registry.modules[i].state # Uncertain

\* confirm_states called on a registry that had an Uncertain module, with a
\* list that omits one module and holds a name that is in no registry.
C4_Witness ==
  /\ lib.op = "confirm_states"
  /\ NameZ \in Range(lib.arg)
  /\ \E i \in 1..Len(lib.registry.modules) :
       /\ lib.registry.modules[i].name \notin Range(lib.arg)
       /\ lib.registry.modules[i].state = Disabled

\* The apply step of invocation p is about to confirm: the applier call
\* returns success in this step.
ConfirmStep(p) == pc[p] = "apply" /\ applied'[p] = "ok"

\* C5: a module that is stored Uncertain, in a manager's memory or in
\* modules.json, becomes Enabled or Disabled only through confirm_states:
\* in memory only in the step in which the applier returns success, which
\* sets every module from the complete activation set; on disk only by the
\* save that follows it.  Loading (with its sync) keeps every stored
\* Uncertain, and a command confirms at most once.
C5_OnlyConfirmClearsUncertain ==
  /\ [][\A p \in Procs :
          /\ \A i \in 1..Len(manager[p].registry.modules) :
               ( /\ pc'[p] # "loaded"
                 /\ manager[p].registry.modules[i].state = Uncertain
                 /\ manager'[p].registry.modules[i].state # Uncertain )
               => /\ ConfirmStep(p)
                  /\ manager'[p].active = manager[p].active
                  /\ \A j \in 1..Len(manager'[p].registry.modules) :
                       manager'[p].registry.modules[j].state =
                         IF manager[p].registry.modules[j].name \in Range(manager[p].active)
                         THEN Enabled ELSE Disabled
          /\ pc'[p] = "loaded" =>
               \A i \in 1..Len(diskRegistry) :
                 diskRegistry[i].state = Uncertain
                   => manager'[p].registry.modules[i].state = Uncertain
       ]_vars
  /\ [][\A i \in 1..Len(diskRegistry) :
          (diskRegistry[i].state = Uncertain /\ diskRegistry'[i].state # Uncertain)
            => \E p \in Procs :
                 /\ pc[p] = "save_registry" /\ applied[p] = "ok"
                 /\ events[p] = <<"write_file", "apply_ok">>
       ]_vars
  /\ [](\A p \in Procs :
          Len(SelectSeq(events[p], LAMBDA e : e = "apply_ok")) <= 1)

\* A load that finds an active module stored Uncertain, and a save that
\* clears one on disk.
C5_Witness ==
  \E p \in Procs :
    /\ pc[p] = "done" /\ applied[p] = "ok"
    /\ \E i \in 1..Len(diskRegistry) :
         /\ pre[p].registry[i].state = Uncertain
         /\ pre[p].registry[i].name \in Range(ModuleFileFromFile(pre[p].file))
         /\ diskRegistry[i].state # Uncertain

\* C6: a command whose write of runtime-modules.nix failed ends with an IO
\* error, has not called the applier and leaves modules.json as it found it;
\* and while a command has not called the applier, modules.json stores
\* Uncertain only where it did when the command began.
C6_FileSaveFailureLeavesCatalog ==
  \A p \in Procs :
    /\ (pc[p] = "done" /\ out[p].result = "io_error" /\ applied[p] = "none") =>
         /\ out[p].exit # 0
         /\ "apply_ok" \notin Range(events[p])
         /\ "apply_failed" \notin Range(events[p])
         /\ diskRegistry = pre[p].registry
    /\ (pc[p] # "idle" /\ applied[p] = "none") =>
         \A i \in 1..Len(diskRegistry) :
           diskRegistry[i].state = Uncertain => pre[p].registry[i].state = Uncertain

\* The write failed after the command had marked a module Uncertain in
\* memory.
C6_Witness ==
  \E p \in Procs :
    /\ pc[p] = "done" /\ out[p].result = "io_error" /\ applied[p] = "none"
    /\ \E i \in 1..Len(diskRegistry) :
         /\ manager[p].registry.modules[i].state = Uncertain
         /\ diskRegistry[i].state = Disabled

\* The files after apply_changes has run to its end for manager m, every
\* save succeeding and the applier returning as `ok` says.
RunApply(m, ok) ==
  [registry |-> AfterApply(m.registry, m.active, ok).modules,
   file |-> SavedModuleFile(m)]

\* The files after a whole `rebuild` invocation that found them as `disk`.
RebuildRun(disk, force, ok) ==
  LET m == ManagerNew(disk.registry, disk.file)
      r == rebuild(m.registry, m.active, force)
  IN IF r.apply THEN RunApply([registry |-> r.registry, active |-> r.active], ok)
     ELSE disk

\* The activation set a command found when it loaded the files.
PreActive(p) == ModuleFileFromFile(pre[p].file)

SomeUncertain(modules) == \E i \in 1..Len(modules) : modules[i].state = Uncertain

\* C7 as stated: whenever rebuild is run, with an applier that does not
\* fail, from files that hold an Uncertain module, no module is Uncertain
\* afterwards: each is Enabled if active and Disabled if not.
C7_RebuildAlwaysResolves ==
  \A p \in Procs :
    ( /\ pc[p] = "done" /\ cmd[p].op = "rebuild" /\ applied[p] # "failed"
      /\ SomeUncertain(pre[p].registry) ) =>
      \A i \in 1..Len(diskRegistry) :
        diskRegistry[i].state =
          IF diskRegistry[i].name \in Range(manager[p].active) THEN Enabled ELSE Disabled

\* C7, amended: rebuild runs the apply step exactly when force is set or
\* the activation set is not empty; a rebuild whose apply step ran and
\* whose applier succeeded leaves no module Uncertain (Enabled if active,
\* Disabled if not), and a further rebuild with a succeeding applier, forced
\* or not, leaves both files as they are.
C7_AppliedRebuildResolves ==
  \A p \in Procs :
    (pc[p] = "done" /\ cmd[p].op = "rebuild") =>
      /\ applied[p] # "none" <=> (cmd[p].force \/ PreActive(p) # <<>>)
      /\ applied[p] = "ok" =>
           /\ \A i \in 1..Len(diskRegistry) :
                diskRegistry[i].state =
                  IF diskRegistry[i].name \in Range(PreActive(p)) THEN Enabled ELSE Disabled
           /\ Disk = RebuildRun(pre[p], cmd[p].force, TRUE)
           /\ \A f \in BOOLEAN : RebuildRun(Disk, f, TRUE) = Disk

\* A successful rebuild from files in which an active module and an
\* inactive one were Uncertain.
C7_Witness ==
  \E p \in Procs :
    /\ pc[p] = "done" /\ cmd[p].op = "rebuild" /\ applied[p] = "ok"
    /\ \E i, j \in 1..Len(diskRegistry) :
         /\ pre[p].registry[i].state = Uncertain /\ diskRegistry[i].state = Enabled
         /\ pre[p].registry[j].state = Uncertain /\ diskRegistry[j].state = Disabled

\* C8 as stated: after enable([m]) of a Disabled module with a failing
\* applier, a fresh status reports m Uncertain, and after a following
\* rebuild(force=true) with a succeeding applier it reports m Enabled.
C8_FailedEnableThenForcedRebuild ==
  \A p \in Procs : \A m \in Names :
    ( /\ pc[p] = "done" /\ cmd[p].op = "enable" /\ cmd[p].modules = <<m>>
      /\ applied[p] = "failed"
      /\ FreshState(pre[p], m) = Disabled ) =>
      /\ FreshState(Disk, m) = Uncertain
      /\ FreshState(RebuildRun(Disk, TRUE, TRUE), m) = Enabled

\* C9 as stated: from an all-Disabled catalog and an empty activation set,
\* enable(N) of existing names with a succeeding applier makes a fresh
\* status report Enabled for exactly the names of N.
C9_EnableThenFreshStatus ==
  \A p \in Procs :
    ( /\ pc[p] = "done" /\ cmd[p].op = "enable" /\ applied[p] = "ok"
      /\ PreActive(p) = <<>>
      /\ \A i \in 1..Len(pre[p].registry) : pre[p].registry[i].state = Disabled ) =>
      \A i \in 1..Len(diskRegistry) :
        FreshState(Disk, diskRegistry[i].name) =
          IF diskRegistry[i].name \in Range(cmd[p].modules) THEN Enabled ELSE Disabled

\* C10: an enable whose names all have effective state Enabled, and a
\* disable whose names all have effective state Disabled, without force,
\* never enters apply_changes: it ends having written neither file and not
\* called the applier, and returns changes = false.
C10_NothingToDoIsNoOp ==
  \A p \in Procs :
    LET want == IF cmd[p].op = "enable" THEN Enabled ELSE Disabled IN
    ( /\ pc[p] \notin {"idle", "loaded"}
      /\ cmd[p].op \in {"enable", "disable"} /\ ~cmd[p].force
      /\ \A k \in 1..Len(cmd[p].modules) :
           /\ cmd[p].modules[k] \in RegNames(pre[p].registry)
           /\ RuleState(pre[p].registry, PreActive(p), cmd[p].modules[k]) = want ) =>
      /\ pc[p] = "done"
      /\ events[p] = <<>>
      /\ applied[p] = "none"
      /\ Disk = pre[p]
      /\ out[p].result = "ok" /\ out[p].exit = 0
      /\ out[p].changes = FALSE

\* An enable of two modules that are both Enabled already, not forced.
C10_Witness ==
  \E p \in Procs :
    /\ pc[p] = "done" /\ cmd[p].op = "enable" /\ ~cmd[p].force
    /\ Len(cmd[p].modules) = 2 /\ cmd[p].modules[1] # cmd[p].modules[2]
    /\ \A k \in 1..2 :
         RuleState(pre[p].registry, PreActive(p), cmd[p].modules[k]) = Enabled
    /\ out[p].changes = FALSE

\* C11: reset and rebuild without force, run while the activation set is
\* empty, are no-ops whatever modules.json stores: neither file is written,
\* the applier is not called and the command returns success.
C11_EmptyResetRebuildNoOp ==
  \A p \in Procs :
    ( /\ pc[p] \notin {"idle", "loaded"}
      /\ cmd[p].op \in {"reset", "rebuild"} /\ ~cmd[p].force
      /\ PreActive(p) = <<>> ) =>
      /\ pc[p] = "done"
      /\ events[p] = <<>>
      /\ applied[p] = "none"
      /\ Disk = pre[p]
      /\ out[p].result = "ok" /\ out[p].exit = 0

\* A reset without force over an empty activation set and a catalog that
\* stores an Uncertain and an Enabled module.
C11_Witness ==
  \E p \in Procs :
    /\ pc[p] = "done" /\ cmd[p].op = "reset" /\ ~cmd[p].force
    /\ PreActive(p) = <<>>
    /\ SomeUncertain(pre[p].registry)
    /\ \E i \in 1..Len(pre[p].registry) : pre[p].registry[i].state = Enabled

\* C12: enable, disable and status given a name that is not in the catalog
\* end with a non-zero exit code before require_sudo, with the manager as it
\* was loaded, with both files as they were and without an applier call.
C12_UnknownNameRejected ==
  \A p \in Procs :
    ( /\ pc[p] \notin {"idle", "loaded"}
      /\ cmd[p].op \in {"enable", "disable", "status"}
      /\ \E k \in 1..Len(cmd[p].modules) :
           cmd[p].modules[k] \notin RegNames(pre[p].registry) ) =>
      /\ pc[p] = "done"
      /\ out[p].exit # 0
      /\ ~out[p].sudo
      /\ manager[p] = ManagerNew(pre[p].registry, pre[p].file)
      /\ events[p] = <<>>
      /\ applied[p] = "none"
      /\ Disk = pre[p]

\* A forced enable of a known Disabled name together with an unknown one.
C12_Witness ==
  \E p \in Procs :
    /\ pc[p] = "done" /\ cmd[p].op = "enable" /\ cmd[p].force
    /\ Len(cmd[p].modules) = 2
    /\ cmd[p].modules[1] \in RegNames(pre[p].registry)
    /\ FreshState(pre[p], cmd[p].modules[1]) = Disabled
    /\ cmd[p].modules[2] = NameZ
    /\ out[p].exit # 0

\* The steps of apply_changes in their order, for either applier outcome.
ApplyOrders ==
  {<<"write_file", a, "write_registry">> : a \in {"apply_ok", "apply_failed"}}

IsPrefix(s, t) == Len(s) <= Len(t) /\ SubSeq(t, 1, Len(s)) = s

\* C13: what a command has done so far is a prefix of: write of
\* runtime-modules.nix, one applier call, write of modules.json; the write
\* of modules.json ends the command; runtime-modules.nix changes only as a
\* command's first step and modules.json only after that command's applier
\* call has returned.
C13_ApplyStepOrder ==
  /\ [](\A p \in Procs :
          /\ \E o \in ApplyOrders : IsPrefix(events[p], o)
          /\ applied[p] # "none" <=> Len(events[p]) >= 2
          /\ Len(events[p]) = 3 => pc[p] = "done")
  /\ [][diskModuleFile' # diskModuleFile =>
          \E p \in Procs : events[p] = <<>> /\ events'[p] = <<"write_file">>]_vars
  /\ [][diskRegistry' # diskRegistry =>
          \E p \in Procs : /\ applied[p] # "none"
                           /\ Len(events[p]) = 2 /\ Len(events'[p]) = 3
                           /\ pc'[p] = "done"]_vars

\* A command that ran all three steps, its applier having failed.
C13_Witness ==
  \E p \in Procs :
    /\ pc[p] = "done"
    /\ events[p] = <<"write_file", "apply_failed", "write_registry">>
    /\ diskRegistry # pre[p].registry /\ diskModuleFile # pre[p].file

\* The state modules.json text `modules` stores for a name it holds.
StoredState(modules, n) == modules[FirstIndex(modules, n)].state

\* Invocation p was killed after runtime-modules.nix was written and before
\* modules.json was: while the applier ran or after it returned.
KilledBeforeCatalogWrite(p) ==
  /\ pc[p] = "done" /\ out[p].result = "killed"
  /\ Len(events[p]) >= 1
  /\ cmd[p].op \in {"enable", "disable"}

\* C14 as stated: after such a kill modules.json shows a module the command
\* had marked optimistically (an enable of a Disabled module, a disable of
\* an Enabled one) as Uncertain, or, for an enable, in the state it had
\* before the command.
C14_KilledShowsOptimisticMark ==
  \A p \in Procs :
    KilledBeforeCatalogWrite(p) =>
      \A k \in 1..Len(cmd[p].modules) :
        LET m == cmd[p].modules[k] IN
        FreshState(pre[p], m) = (IF cmd[p].op = "enable" THEN Disabled ELSE Enabled) =>
          \/ StoredState(diskRegistry, m) = Uncertain
          \/ /\ cmd[p].op = "enable"
             /\ StoredState(diskRegistry, m) = StoredState(pre[p].registry, m)

\* C14, amended: after such a kill modules.json is exactly what the command
\* loaded, so a requested module shows the state stored before the command
\* (Uncertain only if it was stored Uncertain then): the optimistic mark and
\* the applier's outcome were in memory only.  runtime-modules.nix holds the
\* activation set after the request.
C14_KilledLeavesCatalogAsLoaded ==
  \A p \in Procs :
    KilledBeforeCatalogWrite(p) =>
      /\ diskRegistry = pre[p].registry
      /\ \A k \in 1..Len(cmd[p].modules) :
           StoredState(diskRegistry, cmd[p].modules[k])
             = StoredState(pre[p].registry, cmd[p].modules[k])
      /\ diskModuleFile = SavedModuleFile(manager[p])

\* A disable of a module stored Enabled, killed after the applier succeeded:
\* the manager held it Disabled, modules.json still shows it Enabled.
C14_Witness ==
  \E p \in Procs :
    /\ KilledBeforeCatalogWrite(p)
    /\ cmd[p].op = "disable" /\ applied[p] = "ok"
    /\ \E k \in 1..Len(cmd[p].modules) :
         LET m == cmd[p].modules[k] IN
         /\ StoredState(pre[p].registry, m) = Enabled
         /\ get_state(manager[p].registry, m) = Disabled
         /\ StoredState(diskRegistry, m) = Enabled

\* Invocation p writes `what` in this step.
Writes(p, what) == events'[p] = Append(events[p], what)

\* The invocations that have ended having written `what`.
Wrote(what) == {p \in Procs : pc[p] = "done" /\ what \in Range(events[p])}

\* C15: with two invocations interleaved, each goes through its own steps
\* in order whatever the other does; a write of either file puts there what
\* the writing invocation holds, whatever the file held and whoever wrote it
\* since that invocation loaded; so when both have ended each file is what
\* one of its writers wrote.
C15_LastWriterWins ==
  /\ [](\A p \in Procs : \E o \in ApplyOrders : IsPrefix(events[p], o))
  /\ [][\A p \in Procs :
          /\ Writes(p, "write_file") => diskModuleFile' = SavedModuleFile(manager[p])
          /\ Writes(p, "write_registry") => diskRegistry' = manager[p].registry.modules
       ]_vars
  /\ []((\A p \in Procs : pc[p] = "done") =>
          /\ Wrote("write_file") # {} =>
               \E p \in Wrote("write_file") : diskModuleFile = SavedModuleFile(manager[p])
          /\ Wrote("write_registry") # {} =>
               \E p \in Wrote("write_registry") : diskRegistry = manager[p].registry.modules)

\* Two invocations that loaded the same files, one enabling a and the other
\* b, both applied with success: a's update is lost.
C15_Witness ==
  /\ \A p \in Procs : pc[p] = "done" /\ cmd[p].op = "enable" /\ applied[p] = "ok"
  /\ pre[1] = pre[2]
  /\ cmd[1].modules = <<NameA>> /\ cmd[2].modules = <<NameB>>
  /\ FreshState(pre[1], NameA) = Disabled
  /\ FreshState(Disk, NameA) = Disabled
  /\ FreshState(Disk, NameB) = Enabled

NoDuplicates(names) ==
  \A i, j \in 1..Len(names) : names[i] = names[j] => i = j

\* C16 as stated: for every duplicate-free list of names of the registry,
\* parsing the text generate_content renders for it gives the list back, in
\* the same order.
C16_RenderParseRoundTrip ==
  ( /\ NoDuplicates(lib.active)
    /\ Range(lib.active) \subseteq RegNames(lib.registry.modules) ) =>
    parse_active_modules(generate_content(lib.active, lib.registry)) = lib.active

\* C17: the activation set a manager holds, and the one a reload of
\* runtime-modules.nix gives, never hold a name twice, whatever sequence of
\* enable, disable, reset and rebuild commands ran from the empty set and
\* even when a request repeats a name.
C17_NoDuplicateActive ==
  /\ NoDuplicates(ModuleFileFromFile(diskModuleFile))
  /\ \A p \in Procs : NoDuplicates(manager[p].active)

\* An enable whose request repeats a name was applied and saved.
C17_Witness ==
  \E p \in Procs :
    /\ pc[p] = "done" /\ cmd[p].op = "enable" /\ applied[p] = "ok"
    /\ ~NoDuplicates(cmd[p].modules)
    /\ cmd[p].modules[1] \in Range(manager[p].active)
    /\ cmd[p].modules[1] \in Range(ModuleFileFromFile(diskModuleFile))

\* C18: status and list end without having written either file or called
\* the applier, and what the load-time sync changed in the manager's
\* registry is not in modules.json afterwards.
C18_StatusListReadOnly ==
  \A p \in Procs :
    (pc[p] \notin {"idle", "loaded"} /\ cmd[p].op \in {"status", "list"}) =>
      /\ pc[p] = "done"
      /\ events[p] = <<>>
      /\ applied[p] = "none"
      /\ Disk = pre[p]

\* A status of a module the sync had set Enabled in memory: modules.json
\* still stores it Disabled.
C18_Witness ==
  \E p \in Procs :
    /\ pc[p] = "done" /\ cmd[p].op = "status" /\ out[p].result = "ok"
    /\ \E i \in 1..Len(diskRegistry) :
         /\ pre[p].registry[i].state = Disabled
         /\ manager[p].registry.modules[i].state = Enabled
         /\ diskRegistry[i].state = Disabled

\* Invocation p has run its command's ModuleManager method on names that
\* all exist.
Ran(p, op) ==
  /\ pc[p] \notin {"idle", "loaded"}
  /\ cmd[p].op = op
  /\ out[p].result # "not_found"

\* The command of invocation p went into apply_changes.
EnteredApplyStep(p) == pc[p] # "done" \/ events[p] # <<>>

\* The effective state of the k-th requested name when p loaded the files.
RequestedState(p, k) == RuleState(pre[p].registry, PreActive(p), cmd[p].modules[k])

\* The registry as p loaded it, before the command touched it.
LoadedModules(p) == ManagerNew(pre[p].registry, pre[p].file).registry.modules

\* C19: enable runs the apply step exactly when force is set, or a requested
\* name has effective state Disabled or Uncertain, or a requested name is
\* new to the activation set; the flag it returns is that condition without
\* force; and before the applier is called the registry differs from the
\* loaded one only in that the requested names with effective state Disabled
\* are Uncertain.
C19_EnableGate ==
  \A p \in Procs :
    Ran(p, "enable") =>
      LET K == 1..Len(cmd[p].modules)
          changed == \/ \E k \in K : RequestedState(p, k) \in {Disabled, Uncertain}
                     \/ \E k \in K : cmd[p].modules[k] \notin Range(PreActive(p))
      IN /\ EnteredApplyStep(p) <=> (cmd[p].force \/ changed)
         /\ out[p].changes = changed
         /\ applied[p] = "none" =>
              \A i \in 1..Len(LoadedModules(p)) :
                manager[p].registry.modules[i].state =
                  IF \E k \in K : /\ cmd[p].modules[k] = LoadedModules(p)[i].name
                                  /\ RequestedState(p, k) = Disabled
                  THEN Uncertain
                  ELSE LoadedModules(p)[i].state

\* A forced enable of names that are all Enabled: applied, changes = false.
C19_Witness ==
  \E p \in Procs :
    /\ Ran(p, "enable") /\ pc[p] = "done" /\ cmd[p].force
    /\ \A k \in 1..Len(cmd[p].modules) : RequestedState(p, k) = Enabled
    /\ applied[p] = "ok"
    /\ out[p].changes = FALSE

\* C20: disable runs the apply step exactly when force is set or a requested
\* name has effective state Enabled or Uncertain, an Uncertain name outside
\* the activation set included, for which the set stays as it is; after a
\* disable whose applier succeeded no requested name is in the activation
\* set, in memory or reloaded, and modules.json stores each as Disabled.
C20_DisableGate ==
  \A p \in Procs :
    Ran(p, "disable") =>
      LET K == 1..Len(cmd[p].modules) IN
      /\ EnteredApplyStep(p) <=>
           (cmd[p].force \/ \E k \in K : RequestedState(p, k) \in {Enabled, Uncertain})
      /\ manager[p].active =
           SelectSeq(PreActive(p), LAMBDA n : n \notin Range(cmd[p].modules))
      /\ (pc[p] = "done" /\ applied[p] = "ok") =>
           \A k \in K :
             /\ cmd[p].modules[k] \notin Range(manager[p].active)
             /\ cmd[p].modules[k] \notin Range(ModuleFileFromFile(diskModuleFile))
             /\ StoredState(diskRegistry, cmd[p].modules[k]) = Disabled

\* An unforced disable of a name that is Uncertain and not in the
\* activation set: applied with success, the set as it was.
C20_Witness ==
  \E p \in Procs :
    /\ Ran(p, "disable") /\ pc[p] = "done" /\ ~cmd[p].force
    /\ Len(cmd[p].modules) = 1
    /\ RequestedState(p, 1) = Uncertain
    /\ cmd[p].modules[1] \notin Range(PreActive(p))
    /\ applied[p] = "ok"
    /\ manager[p].active = PreActive(p)
    /\ StoredState(diskRegistry, cmd[p].modules[1]) = Disabled

\* C21: a reset that finds a non-empty activation set, or is forced, goes
\* into the apply step with an empty activation set and with every name
\* that was active Uncertain in the registry; when the applier succeeded,
\* the saved activation set is empty and modules.json stores every module
\* Disabled; when it failed, the saved activation set is empty and
\* modules.json stores every module that was active as Uncertain.
C21_ResetMarksAndEmpties ==
  \A p \in Procs :
    (Ran(p, "reset") /\ (PreActive(p) # <<>> \/ cmd[p].force)) =>
      /\ EnteredApplyStep(p)
      /\ manager[p].active = <<>>
      /\ applied[p] = "none" =>
           \A i \in 1..Len(LoadedModules(p)) :
             manager[p].registry.modules[i].state =
               IF LoadedModules(p)[i].name \in Range(PreActive(p))
               THEN Uncertain ELSE LoadedModules(p)[i].state
      /\ (pc[p] = "done" /\ applied[p] = "ok") =>
           /\ ModuleFileFromFile(diskModuleFile) = <<>>
           /\ \A i \in 1..Len(diskRegistry) : diskRegistry[i].state = Disabled
      /\ (pc[p] = "done" /\ applied[p] = "failed") =>
           /\ ModuleFileFromFile(diskModuleFile) = <<>>
           /\ \A i \in 1..Len(diskRegistry) :
                diskRegistry[i].name \in Range(PreActive(p))
                  => diskRegistry[i].state = Uncertain

\* A reset whose applier failed, over two active modules stored Enabled.
C21_Witness ==
  \E p \in Procs :
    /\ Ran(p, "reset") /\ pc[p] = "done" /\ applied[p] = "failed"
    /\ Len(PreActive(p)) = 2
    /\ \A k \in 1..2 :
         /\ StoredState(pre[p].registry, PreActive(p)[k]) = Enabled
         /\ StoredState(diskRegistry, PreActive(p)[k]) = Uncertain

\* The entries of a descriptor text: its lines that hold a quoted path.
DescriptorEntries(content) ==
  SelectSeq(Lines(content), LAMBDA l : Contains(l, QUOTE))

\* The active names the registry has a module for, in their order.
Resolvable(active, modules) ==
  SelectSeq(active, LAMBDA n : n \in RegNames(modules))

\* The entry the descriptor is to hold for name n of the registry.
EntryOf(modules, n) ==
  <<SP, SP, SP, SP, QUOTE>> \o modules[FirstIndex(modules, n)].path
    \o <<QUOTE, SP, HASH, SP>> \o n

\* The rendering of a duplicate-free activation set holds one entry for
\* each active name the registry resolves, in the order of the set, and
\* nothing for any other name.
RenderedEntriesOk ==
  NoDuplicates(lib.active) =>
    LET names == Resolvable(lib.active, lib.registry.modules) IN
    DescriptorEntries(generate_content(lib.active, lib.registry))
      = [k \in 1..Len(names) |-> EntryOf(lib.registry.modules, names[k])]

\* C22 as stated: the entries are as above, and every active name that does
\* not resolve is skipped with a warning.
C22_RenderSkipsWithWarning ==
  /\ RenderedEntriesOk
  /\ \A n \in Range(lib.active) :
       n \notin RegNames(lib.registry.modules)
         => n \in Range(generate_content_warnings(lib.active, lib.registry))

\* C23: for the registry the caller holds, get_state, set_state,
\* get_module_path and verify_modules_exist give the same result and leave
\* the same modules with the map built as without it; and a map, once
\* built, has exactly the names of the modules and sends each name to the
\* position of the module of that name, after every later call as well.
C23_IndexEquivalent ==
  LET without == [lib.registry EXCEPT !.module_map = NoMap]
      with == init_lookup(without)
  IN /\ \A n \in LibNames :
          /\ get_state(with, n) = get_state(without, n)
          /\ get_module_path(with, n) = get_module_path(without, n)
          /\ set_state_ret(with, n) = set_state_ret(without, n)
          /\ \A st \in ModuleState :
               set_state(with, n, st).modules = set_state(without, n, st).modules
     /\ \A names \in LibRequests :
          verify_modules_exist(with, names) = verify_modules_exist(without, names)
     /\ lib.registry.module_map.some =>
          /\ DOMAIN lib.registry.module_map.map = RegNames(lib.registry.modules)
          /\ \A n \in RegNames(lib.registry.modules) :
               lib.registry.modules[lib.registry.module_map.map[n]].name = n

\* set_state through a built map has changed the second module.
C23_Witness ==
  /\ lib.registry.module_map.some
  /\ lib.op = "set_state" /\ lib.ret
  /\ lib.arg = <<lib.registry.modules[2].name>>
  /\ lib.registry.modules[2].state = Uncertain
  /\ lib.registry.modules[1].state = Disabled

\* The position of the first occurrence of n in names.
FirstPos(names, n) ==
  CHOOSE i \in 1..Len(names) : names[i] = n /\ \A j \in 1..(i-1) : names[j] # n

\* C24: a call of enable_modules(names) on the module file keeps the
\* entries it had, in their order, and appends after them each requested
\* name that was not among them, once, in the order of first request; it
\* returns true exactly when it appended a name.
C24_AddAll ==
  [][lib'.op = "enable_modules" =>
       LET old == lib.active
           new == lib'.active
           added == SubSeq(new, Len(old) + 1, Len(new))
       IN /\ Len(new) >= Len(old)
          /\ SubSeq(new, 1, Len(old)) = old
          /\ NoDuplicates(added)
          /\ Range(added) = Range(lib'.arg) \ Range(old)
          /\ \A i, j \in 1..Len(added) :
               i < j => FirstPos(lib'.arg, added[i]) < FirstPos(lib'.arg, added[j])
          /\ lib'.ret <=> added # <<>>
    ]_vars

\* enable_modules of a name that is active and one that is not returned
\* true, the new name after the old one.
C24_Witness ==
  /\ lib.op = "enable_modules" /\ lib.ret
  /\ Len(lib.arg) = 2 /\ Len(lib.active) = 2
  /\ lib.arg[1] = lib.active[2] /\ lib.arg[2] = lib.active[1]

\* C25: a call of disable_modules(names) on the module file removes every
\* occurrence of every listed name, keeps the other entries in their order
\* and returns true exactly when the vector got shorter, that is when a
\* listed name was in it.
C25_RemoveAll ==
  [][lib'.op = "disable_modules" =>
       /\ lib'.active = SelectSeq(lib.active, LAMBDA n : n \notin Range(lib'.arg))
       /\ lib'.ret <=> Len(lib'.active) < Len(lib.active)
       /\ lib'.ret <=> Range(lib'.arg) \cap Range(lib.active) # {}
    ]_vars

\* disable_modules has removed a listed name and left another entry.
C25_Witness ==
  /\ lib.op = "disable_modules" /\ lib.ret
  /\ Len(lib.arg) = 2 /\ lib.arg[1] # lib.arg[2]
  /\ Len(lib.active) = 1

\* C26: for the activation set the caller holds and every name list N,
\* enable_modules(N) followed by disable_modules(N) leaves no name of N
\* active, and leaves the set as it was when it held no name of N.
C26_AddThenRemove ==
  \A N \in LibRequests :
    LET added == file_enable_modules(lib.active, N).active
        after == file_disable_modules(added, N).active
    IN /\ Range(after) \cap Range(N) = {}
       /\ Range(lib.active) \cap Range(N) = {} => after = lib.active

\* A set of one name, and a list of two other names to add and remove.
C26_Witness ==
  /\ Len(lib.active) = 1
  /\ \E N \in LibRequests :
       /\ Len(N) = 2 /\ N[1] # N[2]
       /\ Range(lib.active) \cap Range(N) = {}
       /\ Len(file_enable_modules(lib.active, N).active) = 3
       /\ file_disable_modules(file_enable_modules(lib.active, N).active, N).active
            = lib.active

\* C27: get_state gives Disabled for a name the registry has no module
\* for; set_state returns true exactly for the names it has a module for,
\* and a call that returns false leaves the registry as it was.
C27_UnknownNameDefaults ==
  /\ \A n \in LibNames :
       /\ n \notin RegNames(lib.registry.modules) =>
            get_state(lib.registry, n) = Disabled
       /\ set_state_ret(lib.registry, n) <=> n \in RegNames(lib.registry.modules)
       /\ ~set_state_ret(lib.registry, n) =>
            \A st \in ModuleState : set_state(lib.registry, n, st) = lib.registry
  /\ lib.op = "set_state" =>
       (lib.ret <=> lib.arg[1] \in RegNames(lib.registry.modules))

\* set_state of an unknown name returned false on a registry that holds an
\* Uncertain module.
C27_Witness ==
  /\ lib.op = "set_state" /\ lib.arg = <<NameZ>> /\ ~lib.ret
  /\ SomeUncertain(lib.registry.modules)
  /\ get_state(lib.registry, NameZ) = Disabled

\* The name, path and description of every module, in order.
Metadata(modules) ==
  [i \in 1..Len(modules) |->
     [name |-> modules[i].name, path |-> modules[i].path, desc |-> modules[i].desc]]

\* Registry after differs from registry before at most in the state of
\* the modules named in S.
OnlyStatesOf(before, after, S) ==
  /\ Metadata(after.modules) = Metadata(before.modules)
  /\ \A i \in 1..Len(before.modules) :
       before.modules[i].name \notin S =>
         after.modules[i].state = before.modules[i].state

\* C28: through every sequence of commands modules.json and the registry of
\* a running command hold the catalog's modules, in its order, with its
\* names, paths and descriptions; set_state and mark_uncertain change only
\* the state of the named modules that exist, and nothing for unknown names.
C28_MetadataFrame ==
  /\ Metadata(diskRegistry) = Metadata(Catalog)
  /\ \A p \in Procs :
       pc[p] # "idle" =>
         LET reg == manager[p].registry IN
         /\ Metadata(reg.modules) = Metadata(Catalog)
         /\ \A n \in Names, st \in ModuleState :
              /\ OnlyStatesOf(reg, set_state(reg, n, st), {n})
              /\ n \notin RegNames(reg.modules) => set_state(reg, n, st) = reg
         /\ \A names \in Requests :
              /\ OnlyStatesOf(reg, mark_uncertain(reg, names), Range(names))
              /\ Range(names) \cap RegNames(reg.modules) = {} =>
                   mark_uncertain(reg, names) = reg

\* An enable of NameB has marked it Uncertain and left NameA Enabled.
C28_Witness ==
  \E p \in Procs :
    /\ pc[p] = "save_file" /\ cmd[p].op = "enable" /\ cmd[p].modules = <<NameB>>
    /\ LoadedModules(p)[2].state = Disabled
    /\ LoadedModules(p)[1].state = Enabled
    /\ manager[p].registry.modules[2].state = Uncertain
    /\ manager[p].registry.modules[1].state = Enabled

\* C29: a status command exits with a non-zero code exactly when some
\* queried name has an effective state other than Enabled, and with zero
\* exactly when every queried name is Enabled.
C29_StatusExitCode ==
  \A p \in Procs :
    (pc[p] = "done" /\ cmd[p].op = "status") =>
      LET K == 1..Len(cmd[p].modules) IN
      /\ out[p].exit # 0 <=> \E k \in K : RequestedState(p, k) # Enabled
      /\ out[p].exit = 0 <=> \A k \in K : RequestedState(p, k) = Enabled
      /\ out[p].result = "ok" =>
           \A k \in K : out[p].status[k] = RequestedState(p, k)

\* status of an Uncertain and a Disabled module exited with a non-zero code.
C29_Witness ==
  \E p \in Procs :
    /\ pc[p] = "done" /\ cmd[p].op = "status" /\ out[p].result = "ok"
    /\ cmd[p].modules = <<NameA, NameB>>
    /\ RequestedState(p, 1) = Uncertain /\ RequestedState(p, 2) = Disabled
    /\ out[p].status = <<Uncertain, Disabled>>
    /\ out[p].exit # 0

\* The text {"enabled":["n1",...,"nk"]} of the name-list record.
RECURSIVE NameListItems(_)
NameListItems(names) ==
  IF names = <<>> THEN <<>>
  ELSE <<QUOTE>> \o Head(names) \o <<QUOTE>>
         \o (IF Tail(names) = <<>> THEN <<>> ELSE <<",">>)
         \o NameListItems(Tail(names))

NameListRecord(names) ==
  <<"{", QUOTE, "enabled", QUOTE, ":", "[">> \o NameListItems(names) \o <<"]", "}">>

\* Loading the record with an empty list gives the empty activation set.
EmptyNameListLoadsEmpty ==
  ModuleFileFromFile(FileOf(NameListRecord(<<>>))) = <<>>

\* C30 as stated: loading a file that holds the name-list record of the
\* names n1..nk gives an activation set of exactly n1..nk, and the empty
\* set for the empty list.
C30_NameListLoads ==
  /\ EmptyNameListLoadsEmpty
  /\ ModuleFileFromFile(FileOf(NameListRecord(lib.active))) = lib.active

\* No line of the text holds a store path, ".nix" and a comment together.
NoEntryLine(content) ==
  \A k \in 1..Len(Lines(content)) :
    LET line == Lines(content)[k] IN
    ~(Contains(line, STORE) /\ Contains(line, DOTNIX) /\ Contains(line, HASH))

\* Texts without an entry: the empty text, blank lines, a text that is no
\* descriptor, and the descriptor written for an empty activation set.
EntrylessTexts ==
  { <<>>, <<SP, NL, NL>>, <<"not valid json">>,
    generate_file_content(<<>>, <<>>) }

\* C31: when runtime-modules.nix is missing, empty or without an entry line
\* the load gives the empty activation set, and every module that is not
\* stored Uncertain then has effective state Disabled.
C31_LoadNeverFails ==
  /\ ModuleFileFromFile(NoFile) = <<>>
  /\ \A t \in EntrylessTexts : ModuleFileFromFile(FileOf(t)) = <<>>
  /\ \A p \in Procs :
       ( /\ pc[p] # "idle"
         /\ \/ ~pre[p].file.exists
            \/ pre[p].file.content = <<>>
            \/ NoEntryLine(pre[p].file.content) ) =>
         /\ PreActive(p) = <<>>
         /\ pc[p] = "loaded" => manager[p].active = <<>>
         /\ \A n \in Names :
              ~StoredUncertain(pre[p].registry, n) => FreshState(pre[p], n) = Disabled

\* An invocation has loaded a descriptor that exists and has lines but no
\* entry line, with one module stored Uncertain.
C31_Witness ==
  \E p \in Procs :
    /\ pc[p] = "loaded"
    /\ pre[p].file.exists /\ pre[p].file.content # <<>>
    /\ NoEntryLine(pre[p].file.content)
    /\ manager[p].active = <<>>
    /\ StoredUncertain(pre[p].registry, NameC)
    /\ FreshState(pre[p], NameC) = Uncertain
    /\ FreshState(pre[p], NameA) = Disabled

\* No command is running: every invocation has run to its end.
Quiescent == \A p \in Procs : pc[p] \in {"idle", "done"}

\* The activation set runtime-modules.nix holds.
PersistedActive == ModuleFileFromFile(diskModuleFile)

\* modules.json and runtime-modules.nix agree about the i-th module.
ArtifactsAgreeAt(i) ==
  IF diskRegistry[i].name \in Range(PersistedActive)
  THEN diskRegistry[i].state \in {Enabled, Uncertain}
  ELSE diskRegistry[i].state \in {Disabled, Uncertain}

\* The modules of the catalog whose path is a .nix file of the store.
StoreModules ==
  {i \in 1..Len(Catalog) : Contains(Catalog[i].path, STORE) /\ Contains(Catalog[i].path, DOTNIX)}

\* Between commands the two files agree about every module of the store.
StoreArtifactsAgree == Quiescent => \A i \in StoreModules : ArtifactsAgreeAt(i)

\* C32 as stated: between commands, run one after the other to their end,
\* a module in the persisted activation set is stored Enabled or Uncertain
\* and a module outside it is stored Disabled or Uncertain.
C32_ArtifactsAgree == Quiescent => \A i \in 1..Len(diskRegistry) : ArtifactsAgreeAt(i)

\* Invocation p ran a mutating command to its end and the applier failed.
FailedByApplier(p) ==
  pc[p] = "done" /\ cmd[p].op \in Mutating /\ applied[p] = "failed"

\* What the command of p does when it is issued again without force on the
\* files as they are now.
Reissue(p) ==
  LET m == ManagerNew(diskRegistry, diskModuleFile) IN
  CASE cmd[p].op = "enable" -> enable_modules(m.registry, m.active, cmd[p].modules, FALSE)
    [] cmd[p].op = "disable" -> disable_modules(m.registry, m.active, cmd[p].modules, FALSE)
    [] cmd[p].op = "reset" -> reset(m.registry, m.active, FALSE)
    [] OTHER -> rebuild(m.registry, m.active, FALSE)

\* The part that holds: an enable whose applier failed, and a disable or a
\* rebuild that was not forced, call the applier when issued again.
RetryAppliesForEnable ==
  \A p \in Procs :
    ( /\ FailedByApplier(p)
      /\ \/ cmd[p].op = "enable"
         \/ cmd[p].op \in {"disable", "rebuild"} /\ ~cmd[p].force ) => Reissue(p).apply

UnforcedResetRetryApplies ==
  \A p \in Procs :
    (FailedByApplier(p) /\ cmd[p].op = "reset" /\ ~cmd[p].force) => Reissue(p).apply

\* Invocation p, an enable of the one module m stored Disabled, was killed
\* after it wrote the descriptor with m's line and before modules.json was
\* written.
KilledEnabling(p, m) ==
  /\ KilledBeforeCatalogWrite(p)
  /\ cmd[p].op = "enable" /\ cmd[p].modules = <<m>>
  /\ StoredState(pre[p].registry, m) = Disabled
  /\ m \in Range(manager[p].active)
  /\ diskModuleFile = SavedModuleFile(manager[p])

\* The part that holds: for a module whose path is a .nix file of the
\* store the next invocation reports Enabled, with modules.json still
\* storing Disabled.
KilledEnableOfStoreModuleReadsEnabled ==
  \A p \in Procs, i \in StoreModules :
    KilledEnabling(p, Catalog[i].name) =>
      /\ FreshState(Disk, Catalog[i].name) = Enabled
      /\ StoredState(diskRegistry, Catalog[i].name) = Disabled

\* C34 as stated: after a kill between the write of the descriptor that
\* lists m and the write of modules.json, during an enable of a module m
\* stored Disabled, the next invocation reports m as Enabled.
C34_KilledEnableReadsEnabled ==
  \A p \in Procs, m \in RegNames(Catalog) :
    KilledEnabling(p, m) => FreshState(Disk, m) = Enabled

\* Both invocations ran a mutating command into the apply step, both
\* appliers succeeded and both have ended.
BothApplied ==
  \A p \in Procs : pc[p] = "done" /\ cmd[p].op \in Mutating /\ applied[p] = "ok"

\* modules.json stores Enabled exactly the modules named in `active`, and
\* Disabled the others.
CatalogConfirms(active) ==
  \A i \in 1..Len(diskRegistry) :
    diskRegistry[i].state =
      IF diskRegistry[i].name \in Range(active) THEN Enabled ELSE Disabled

ManagerUnsynced(modules, file) ==
  [registry |-> RegistryFromFile(modules), active |-> ModuleFileFromFile(file)]

\* What the ModuleManager method of command c does with manager m up to its
\* call of apply_changes.
Decide(m, c) ==
  CASE c.op = "enable" -> enable_modules(m.registry, m.active, c.modules, c.force)
    [] c.op = "disable" -> disable_modules(m.registry, m.active, c.modules, c.force)
    [] c.op = "reset" -> reset(m.registry, m.active, c.force)
    [] OTHER -> rebuild(m.registry, m.active, c.force)

\* The mutating command lines.
MutatingCommands ==
  [op : {"enable", "disable"}, modules : Requests, force : BOOLEAN]
    \cup [op : {"reset", "rebuild"}, modules : {<<>>}, force : BOOLEAN]

\* Everything a command on manager m shows or stores: the states status and
\* list report, whether the names are accepted, and for each mutating
\* command whether it applies, the flag it returns, and the two files it
\* writes when the applier succeeds and when it fails.
Observable(m) ==
  [status |-> [names \in Requests |-> get_status(m.registry, m.active, names)],
   list |-> get_all_status(m.registry, m.active),
   verify |-> [names \in Requests |-> verify_modules_exist(m.registry, names)],
   run |-> [c \in MutatingCommands |->
              LET r == Decide(m, c) IN
              IF ~r.apply THEN [apply |-> FALSE, changes |-> r.changes]
              ELSE [apply |-> TRUE, changes |-> r.changes,
                    file |-> SavedModuleFile(r),
                    registry |-> [ok \in BOOLEAN |->
                                    AfterApply(r.registry, r.active, ok).modules]]]]

\* C36: for the files an invocation loads, the manager built with the sync
\* and the one built without it report the same effective states, accept
\* the same names, make the same decision to apply, return the same flag
\* and write the same two files; and the sync leaves every module stored
\* Uncertain as it is.
C36_SyncUnobservable ==
  \A p \in Procs :
    pc[p] = "loaded" =>
      /\ manager[p] = ManagerNew(pre[p].registry, pre[p].file)
      /\ Observable(manager[p]) = Observable(ManagerUnsynced(pre[p].registry, pre[p].file))
      /\ \A i \in 1..Len(pre[p].registry) :
           pre[p].registry[i].state = Uncertain =>
             manager[p].registry.modules[i].state = Uncertain

\* An invocation has loaded files in which a is active and stored Uncertain
\* and b is active and stored Disabled: the sync set b Enabled in memory and
\* left a Uncertain.
C36_Witness ==
  \E p \in Procs :
    /\ pc[p] = "loaded"
    /\ {NameA, NameB} \subseteq Range(PreActive(p))
    /\ StoredState(pre[p].registry, NameA) = Uncertain
    /\ StoredState(pre[p].registry, NameB) = Disabled
    /\ get_state(manager[p].registry, NameA) = Uncertain
    /\ get_state(manager[p].registry, NameB) = Enabled

\* C37: apply_configuration succeeds exactly when it reached nixos-rebuild
\* and that exited with success: a failing exit of the flake update does
\* not stop it, while a failed change of directory, a command that cannot
\* be started and a failing exit of nixos-rebuild give an error; after an
\* error the active modules are Uncertain, after success each module is
\* Enabled if active and Disabled if not.
C37_ApplierOutcome ==
  lib.op = "apply_changes" =>
    LET env == [chdir |-> lib.arg[1], update |-> lib.arg[2], rebuild |-> lib.arg[3]]
        run == apply_configuration(env)
        rebuilt == "nixos-rebuild" \in Range(run.steps)
    IN /\ lib.ret = run.ok
       /\ run.ok <=> (rebuilt /\ env.rebuild = "success")
       /\ (env.chdir = "ok" /\ env.update = "nonzero") => rebuilt
       /\ env.chdir = "err" => (~run.ok /\ run.steps = <<"chdir">>)
       /\ (env.chdir = "ok" /\ env.update = "spawn_err") => (~run.ok /\ ~rebuilt)
       /\ env.rebuild # "success" => ~run.ok
       /\ \A i \in 1..Len(lib.registry.modules) :
            LET m == lib.registry.modules[i] IN
            IF lib.ret
            THEN m.state = IF m.name \in Range(lib.active) THEN Enabled ELSE Disabled
            ELSE m.name \in Range(lib.active) => m.state = Uncertain

\* The flake update exited with a failure, nixos-rebuild with success: the
\* call succeeded and the active module is Enabled.
C37_Witness ==
  /\ lib.op = "apply_changes" /\ lib.arg = <<"ok", "nonzero", "success">>
  /\ lib.ret
  /\ lib.active = <<NameB>>
  /\ get_state(lib.registry, NameB) = Enabled

\* ------------------------------------------- the stand-alone CLI (main.rs)

\* main.rs holds no manager: each handler reads runtime-modules.nix and
\* modules.json (of which it uses the names and the paths) when it needs
\* them and writes runtime-modules.nix; what apply_configuration returns is
\* dropped.  cmd[1] and out[1] are the last command and what it did.

\* The pieces of a path that hold "-source/".
SourceTokens == {"h-source/a", "h-source/b"}

\* line.contains("/nix/store/") && line.contains("-source/")
main_store_path_line(line) ==
  Contains(line, STORE) /\ \E i \in 1..Len(line) : line[i] \in SourceTokens

\* str::ends_with
EndsWith(s, t) ==
  Len(t) <= Len(s) /\ SubSeq(s, Len(s) - Len(t) + 1, Len(s)) = t

main_get_module_path(modules, n) ==
  IF n \in RegNames(modules) THEN <<modules[FirstIndex(modules, n)].path>> ELSE <<>>

main_is_module_enabled(file, n) ==
  /\ file.exists
  /\ \E k \in 1..Len(Lines(file.content)) :
       LET line == Trim(Lines(file.content)[k]) IN
       main_store_path_line(line) /\ EndsWith(line, <<HASH, SP>> \o n)

RECURSIVE main_active_of_lines(_)
main_active_of_lines(ls) ==
  IF ls = <<>> THEN <<>>
  ELSE LET line == Trim(Head(ls))
           pos == Find(line, HASH)
           name == IF pos = 0 THEN <<>> ELSE Trim(SubSeq(line, pos + 1, Len(line)))
       IN (IF main_store_path_line(line) /\ pos # 0 /\ name # <<>>
           THEN <<name>> ELSE <<>>) \o main_active_of_lines(Tail(ls))

main_get_active_modules(file) ==
  IF ~file.exists THEN <<>> ELSE main_active_of_lines(Lines(file.content))

\* generate_modules_file: the text it writes, one line for every element of
\* the list that has a path.
main_generate_modules_file(modules, registry) ==
  LET entry(m) ==
        LET path == main_get_module_path(registry, m) IN
        IF path = <<>> THEN <<>>
        ELSE <<SP, SP, SP, SP, QUOTE>> \o path[1] \o <<QUOTE, SP, HASH, SP>> \o m \o <<NL>>
  IN FileOf(<<HASH, SP, "This file is generated by runtime-module script", NL>>
            \o <<"{ ... }:", NL>>
            \o <<"{", NL>>
            \o (IF modules = <<>>
                THEN <<SP, SP, HASH, SP, "No active modules", NL>>
                ELSE <<SP, SP, "imports = [", NL>>
                     \o Flatten([i \in 1..Len(modules) |-> entry(modules[i])])
                     \o <<SP, SP, "];", NL>>)
            \o <<"}", NL>>)

\* cmd_enable: is_module_enabled reads the file for each requested name, and
\* the file is not written before the loop has ended.
main_cmd_enable(file, registry, names) ==
  LET new == SelectSeq(names, LAMBDA n : ~main_is_module_enabled(file, n))
      active == main_get_active_modules(file) \o new
  IN [changes |-> new # <<>>,
      file |-> IF new # <<>> THEN main_generate_modules_file(active, registry) ELSE file]

main_cmd_disable(file, registry, names) ==
  LET active == main_get_active_modules(file)
      kept == SelectSeq(active, LAMBDA n : n \notin Range(names))
  IN [changes |-> kept # active,
      file |-> IF kept # active THEN main_generate_modules_file(kept, registry) ELSE file]

\* A handler of main.rs has run to its end.
MainDone(c, result, changes, file) ==
  /\ cmd' = [cmd EXCEPT ![1] = c]
  /\ out' = [out EXCEPT ![1] = [NoOut EXCEPT !.result = result, !.changes = changes,
                                             !.exit = IF result = "ok" THEN 0 ELSE 1]]
  /\ diskModuleFile' = file
  /\ UNCHANGED <<diskRegistry, pc, manager, applied, events, pre, lib>>

\* verify_modules, then cmd_enable
MainEnable ==
  \E names \in Requests :
    LET c == [op |-> "enable", modules |-> names, force |-> FALSE] IN
    IF ~(Range(names) \subseteq RegNames(diskRegistry))
    THEN MainDone(c, "not_found", FALSE, diskModuleFile)
    ELSE LET r == main_cmd_enable(diskModuleFile, diskRegistry, names) IN
         MainDone(c, "ok", r.changes, r.file)

\* verify_modules, then cmd_disable
MainDisable ==
  \E names \in Requests :
    LET c == [op |-> "disable", modules |-> names, force |-> FALSE] IN
    IF ~(Range(names) \subseteq RegNames(diskRegistry))
    THEN MainDone(c, "not_found", FALSE, diskModuleFile)
    ELSE LET r == main_cmd_disable(diskModuleFile, diskRegistry, names) IN
         MainDone(c, "ok", r.changes, r.file)

\* cmd_reset
MainReset ==
  MainDone([op |-> "reset", modules |-> <<>>, force |-> FALSE], "ok", FALSE,
           main_generate_modules_file(<<>>, diskRegistry))

MainNext == MainEnable \/ MainDisable \/ MainReset

SpecMain == Init /\ [][MainNext]_vars

\* The part that holds: a request that names no module twice leaves a
\* descriptor without a repeated entry when the descriptor had none.
MainEnableOfDistinctNames ==
  \A names \in Requests :
    ( /\ NoDuplicates(names)
      /\ Range(names) \subseteq RegNames(diskRegistry)
      /\ NoDuplicates(DescriptorEntries(diskModuleFile.content)) ) =>
      NoDuplicates(DescriptorEntries(
        main_cmd_enable(diskModuleFile, diskRegistry, names).file.content))

\* C38 as stated: the descriptor cmd_enable of main.rs has written holds no
\* module twice, and get_active_modules reads no name twice from it,
\* whatever the request, one that repeats an inactive name included.
C38_MainEnableNoDuplicates ==
  (cmd[1].op = "enable" /\ out[1].result = "ok" /\ out[1].changes) =>
    /\ NoDuplicates(DescriptorEntries(diskModuleFile.content))
    /\ NoDuplicates(main_get_active_modules(diskModuleFile))

====
